---------------------------- MODULE Spec2Model ----------------------------
(***************************************************************************)
(* A model of SceneManager (Source/SceneManager.cpp): the texture          *)
(* registry, the material catalog, the shader parameter setters and the    *)
(* scene setup, together with the part of the OpenGL context state they    *)
(* read and write.                                                         *)
(*                                                                         *)
(* Floating point values are written in thousandths (0.502 is 502).        *)
(***************************************************************************)
EXTENDS Integers, Sequences, FiniteSets, TLC

VARIABLES
    m_pShaderManager,   \* "NULL" or "valid": the pointer given to the constructor
    m_basicMeshes,      \* the mesh kinds the ShapeMeshes object has loaded
    m_textureIDs,       \* the array TEXTURE_INFO m_textureIDs[16], indexed from 0
    m_loadedTextures,   \* the number of registered textures
    beyond,             \* the memory just past m_textureIDs, read as m_textureIDs[16...]
    m_objectMaterials,  \* the std::vector of defined materials
    gl,                 \* the OpenGL context: texture names, active unit, bindings
    uniforms,           \* the uniform state of the shading program
    crashed,            \* TRUE once a null shader manager has been dereferenced
    loadLog,            \* history: <<tag, ID>> of every CreateGLTexture that returned true
    lastCall,           \* the last method called, its arguments and its result
    imageFiles,         \* what stbi_load makes of each of the four scene image files
    fragment,           \* the inputs of the fragment the lighting stage last shaded
    fragmentColor,      \* the output of the lighting stage for that fragment
    draws,              \* history: the mesh draws of the last RenderScene, each with
                        \* the uniforms the lighting stage reads for it
    bindPending         \* history: CreateGLTexture has been called since the last
                        \* BindGLTextures

vars == <<m_pShaderManager, m_basicMeshes, m_textureIDs, m_loadedTextures, beyond,
          m_objectMaterials, gl, uniforms, crashed, loadLog, lastCall, imageFiles,
          fragment, fragmentColor, draws, bindPending>>

----------------------------------------------------------------------------
(* Program constants *)

\* the length of m_textureIDs: "There are up to 16 slots"
MAX_TEXTURES == 16

(* Bounds of the model *)

\* how many registrations past the end of m_textureIDs the model follows
MaxOverflow == 1

\* how many textures may exist when CreateGLTexture is called on its own with an
\* image that decodes (a call whose decode fails, and a call on a full registry,
\* are always followed)
MaxFreeLoads == 1

\* how many of the four scene image files, counted from the last one, may be
\* missing or unsupported
MaxBadFiles == 1

\* how many times DefineObjectMaterials may run (each run appends three materials)
MaxDefines == 2

\* the largest scale factor of the transformations tried is MaxScale + 2
MaxScale == 2

\* the largest translation of the transformations tried is MaxPos + 2
MaxPos == 5

----------------------------------------------------------------------------
(* Values *)

NoEntry == [ID |-> 0, tag |-> ""]

\* what m_textureIDs[MAX_TEXTURES + k] may read as after an out-of-bounds store
\* whose bytes another member has since overwritten
ClobberedEntry == [ID |-> 99, tag |-> "?"]

SceneTextureTags == <<"leaves", "pineleaves", "log", "stone">>

FreeTags == {"stone", "bark"}

LookupTags == {"stone", "bark", "absent"}

MaterialTags == {"wood", "greenery", "sky", "absent"}

\* stbi_load's result: 0 is a NULL image, otherwise the file's channel count
Channels == {0, 1, 3, 4}

\* the scene's images are JPEG files: missing, grayscale or RGB
SceneChannels == {0, 1, 3}

SceneDecodes ==
    {d \in [1..4 -> SceneChannels] : \A i \in 1..4 : d[i] # 3 => i > 4 - MaxBadFiles}

\* the contents an OBJECT_MATERIAL local may have before anything is assigned to it
UninitMaterials ==
    { [diffuseColor |-> <<0, 0, 0>>, specularColor |-> <<0, 0, 0>>, shininess |-> 0],
      [diffuseColor |-> <<7, 7, 7>>, specularColor |-> <<7, 7, 7>>, shininess |-> 7] }

Colors == { <<0, 502, 0, 1000>>, <<900, 900, 900, 1000>> }

UVs == { <<1000, 1000>>, <<2000, 2000>> }

Units == 0 .. (MAX_TEXTURES + MaxOverflow - 1)

----------------------------------------------------------------------------
(* The state as one record, so that methods compose; written is the set of    *)
(* uniforms set since the last mesh draw of the method that is running         *)

S == [ m_pShaderManager |-> m_pShaderManager, m_basicMeshes |-> m_basicMeshes,
       m_textureIDs |-> m_textureIDs, m_loadedTextures |-> m_loadedTextures,
       beyond |-> beyond, m_objectMaterials |-> m_objectMaterials, gl |-> gl,
       uniforms |-> uniforms, crashed |-> crashed, loadLog |-> loadLog,
       draws |-> draws, bindPending |-> bindPending, written |-> {} ]

Commit(s) ==
    /\ m_pShaderManager' = s.m_pShaderManager
    /\ m_basicMeshes' = s.m_basicMeshes
    /\ m_textureIDs' = s.m_textureIDs
    /\ m_loadedTextures' = s.m_loadedTextures
    /\ beyond' = s.beyond
    /\ m_objectMaterials' = s.m_objectMaterials
    /\ gl' = s.gl
    /\ uniforms' = s.uniforms
    /\ crashed' = s.crashed
    /\ loadLog' = s.loadLog
    /\ draws' = s.draws
    /\ bindPending' = s.bindPending

----------------------------------------------------------------------------
(* OpenGL *)

\* glGenTextures(1, &id): an unused texture name
GenName(g) == CHOOSE n \in 1..(Cardinality(g.names) + 1) :
                  /\ n \notin g.names
                  /\ \A m \in 1..(n - 1) : m \in g.names

glGenTextures(g) == [g EXCEPT !.names = g.names \cup {GenName(g)}]

\* glBindTexture(GL_TEXTURE_2D, id): binds on the active unit; a name that
\* glGenTextures never returned is GL_INVALID_OPERATION in a core profile
glBindTexture(g, id) ==
    IF id = 0 \/ id \in g.names
    THEN [g EXCEPT !.bound[g.active] = id]
    ELSE g

\* glActiveTexture(GL_TEXTURE0 + i)
glActiveTexture(g, i) == [g EXCEPT !.active = i]

----------------------------------------------------------------------------
(* ShaderManager *)

\* m_pShaderManager->setXValue(name, value), with no check of the pointer
setValue(s, name, value) ==
    IF s.crashed THEN s
    ELSE IF s.m_pShaderManager = "NULL" THEN [s EXCEPT !.crashed = TRUE]
    ELSE IF name \in DOMAIN s.uniforms
         THEN [s EXCEPT !.uniforms[name] = value, !.written = @ \cup {name}]
    ELSE s   \* no such uniform in the program: location -1, the write is ignored

----------------------------------------------------------------------------
(* Texture registry *)

\* m_textureIDs[i], also for i past the end of the array
Entry(s, i) == IF i < MAX_TEXTURES THEN s.m_textureIDs[i] ELSE s.beyond[i]

\* m_textureIDs[i] = e, also for i past the end of the array, where the stored
\* bytes belong to whatever follows the array and need not read back as stored
StoreEntry(s, i, e, clobber) ==
    IF i < MAX_TEXTURES
    THEN [s EXCEPT !.m_textureIDs[i] = e]
    ELSE [s EXCEPT !.beyond[i] = IF clobber THEN ClobberedEntry ELSE e]

\* a mistaken order: the texture is generated before the image is looked at
CreateGLTextureGenFirst(s, tag, channels, clobber) ==
    LET textureID == GenName(s.gl)
        g1 == glBindTexture(glGenTextures(s.gl), textureID)
    IN  IF channels \notin {3, 4}
        THEN [st |-> [s EXCEPT !.gl = g1, !.bindPending = TRUE], ret |-> FALSE]
        ELSE
          LET g2 == glBindTexture(g1, 0)
              s1 == StoreEntry([s EXCEPT !.gl = g2, !.bindPending = TRUE], s.m_loadedTextures,
                               [ID |-> textureID, tag |-> tag], clobber)
          IN  [st |-> [s1 EXCEPT !.m_loadedTextures = s.m_loadedTextures + 1,
                                 !.loadLog = Append(s.loadLog, <<tag, textureID>>)],
               ret |-> TRUE]

CreateGLTexture(s, tag, channels, clobber) ==
    IF channels = 0
    THEN [st |-> [s EXCEPT !.bindPending = TRUE], ret |-> FALSE]
    ELSE
      LET textureID == GenName(s.gl)
          g1 == glBindTexture(glGenTextures(s.gl), textureID)
      IN  IF channels \notin {3, 4}
          THEN [st |-> [s EXCEPT !.gl = g1, !.bindPending = TRUE], ret |-> FALSE]
          ELSE
            LET g2 == glBindTexture(g1, 0)
                s1 == StoreEntry([s EXCEPT !.gl = g2, !.bindPending = TRUE],
                                 s.m_loadedTextures,
                                 [ID |-> textureID, tag |-> tag], clobber)
            IN  [st |-> [s1 EXCEPT !.m_loadedTextures = s.m_loadedTextures + 1,
                                   !.loadLog = Append(s.loadLog, <<tag, textureID>>)],
                 ret |-> TRUE]

\* a mistaken loop: glActiveTexture is left out, every texture lands on one unit
RECURSIVE BindLoopOneUnit(_, _)
BindLoopOneUnit(s, i) ==
    IF i < s.m_loadedTextures
    THEN BindLoopOneUnit([s EXCEPT !.gl = glBindTexture(s.gl, Entry(s, i).ID)], i + 1)
    ELSE s

RECURSIVE BindLoop(_, _)
BindLoop(s, i) ==
    IF i < s.m_loadedTextures
    THEN BindLoop([s EXCEPT !.gl = glBindTexture(glActiveTexture(s.gl, i), Entry(s, i).ID)],
                  i + 1)
    ELSE s

BindGLTextures(s) == [BindLoop(s, 0) EXCEPT !.bindPending = FALSE]

\* the loop of DestroyGLTextures: glGenTextures(1, &m_textureIDs[i].ID) for
\* every registered entry
RECURSIVE DestroyLoop(_, _, _)
DestroyLoop(s, i, clobber) ==
    IF i < s.m_loadedTextures
    THEN DestroyLoop(
             StoreEntry([s EXCEPT !.gl = glGenTextures(s.gl)], i,
                        [ID |-> GenName(s.gl), tag |-> Entry(s, i).tag], clobber),
             i + 1, clobber)
    ELSE s

DestroyGLTextures(s, clobber) == DestroyLoop(s, 0, clobber)

\* the loop shared by FindTextureID and FindTextureSlot: the index it stops at
RECURSIVE TextureScan(_, _, _)
TextureScan(s, tag, index) ==
    IF index < s.m_loadedTextures
    THEN IF Entry(s, index).tag = tag THEN index ELSE TextureScan(s, tag, index + 1)
    ELSE -1

FindTextureID(s, tag) ==
    LET index == TextureScan(s, tag, 0)
    IN  IF index = -1 THEN -1 ELSE Entry(s, index).ID

FindTextureSlot(s, tag) == TextureScan(s, tag, 0)

----------------------------------------------------------------------------
(* Material catalog *)

\* the while loop of FindMaterial: the index it stops at (0-based), or the size
RECURSIVE MaterialScan(_, _, _)
MaterialScan(mats, tag, index) ==
    IF index < Len(mats)
    THEN IF mats[index + 1].tag = tag THEN index ELSE MaterialScan(mats, tag, index + 1)
    ELSE index

\* bool FindMaterial(tag, OBJECT_MATERIAL& material): material is the caller's object
FindMaterial(s, tag, material) ==
    IF Len(s.m_objectMaterials) = 0
    THEN [ret |-> FALSE, material |-> material]
    ELSE
      LET index == MaterialScan(s.m_objectMaterials, tag, 0)
      IN  IF index < Len(s.m_objectMaterials)
          THEN [ret |-> TRUE,
                material |-> [diffuseColor |-> s.m_objectMaterials[index + 1].diffuseColor,
                              specularColor |-> s.m_objectMaterials[index + 1].specularColor,
                              shininess |-> s.m_objectMaterials[index + 1].shininess]]
          ELSE [ret |-> TRUE, material |-> material]

woodMaterial ==
    [diffuseColor |-> <<200, 200, 300>>, specularColor |-> <<0, 0, 0>>,
     shininess |-> 100, tag |-> "wood"]

greeneryMaterial ==
    [diffuseColor |-> <<800, 800, 900>>, specularColor |-> <<200, 200, 200>>,
     shininess |-> 1250, tag |-> "greenery"]

skyMaterial ==
    [diffuseColor |-> <<1000, 1000, 1000>>, specularColor |-> <<100, 100, 100>>,
     shininess |-> 1500, tag |-> "sky"]

DefineObjectMaterials(s) ==
    [s EXCEPT !.m_objectMaterials =
        s.m_objectMaterials \o <<woodMaterial, greeneryMaterial, skyMaterial>>]


----------------------------------------------------------------------------
(* Transformations: 4x4 matrices of thousandths, M[row][column], rows and    *)
(* columns 1..4                                                              *)

Degrees == {0, 90, 180, 270}

\* the product of two floats, rounded down to the thousandth: (a * b) \div 1000,
\* computed in two parts so that the intermediate product stays small
Mul(a, b) == (a \div 1000) * b + ((a % 1000) * b) \div 1000

\* cos(glm::radians(d)) and sin(glm::radians(d)) for the angles the scene uses
Cos(d) == CASE d % 360 = 0 -> 1000 [] d % 360 = 90 -> 0 [] d % 360 = 180 -> -1000
            [] d % 360 = 270 -> 0 [] d % 360 = 15 -> 966 [] OTHER -> 0

Sin(d) == CASE d % 360 = 0 -> 0 [] d % 360 = 90 -> 1000 [] d % 360 = 180 -> 0
            [] d % 360 = 270 -> -1000 [] d % 360 = 15 -> 259 [] OTHER -> 0

Dot(A, B, r, c) ==
    Mul(A[r][1], B[1][c]) + Mul(A[r][2], B[2][c]) + Mul(A[r][3], B[3][c])
        + Mul(A[r][4], B[4][c])

MatRow(A, B, r) == <<Dot(A, B, r, 1), Dot(A, B, r, 2), Dot(A, B, r, 3), Dot(A, B, r, 4)>>

MatMul(A, B) == <<MatRow(A, B, 1), MatRow(A, B, 2), MatRow(A, B, 3), MatRow(A, B, 4)>>

\* glm::scale(v)
glmScale(v) ==
    << <<v[1], 0, 0, 0>>, <<0, v[2], 0, 0>>, <<0, 0, v[3], 0>>, <<0, 0, 0, 1000>> >>

\* glm::translate(v)
glmTranslate(v) ==
    << <<1000, 0, 0, v[1]>>, <<0, 1000, 0, v[2]>>, <<0, 0, 1000, v[3]>>,
       <<0, 0, 0, 1000>> >>

\* glm::rotate(angle, axis) for a unit axis: c, s, temp = (1 - c) * axis and the
\* nine entries glm computes from them
glmRotate(d, axis) ==
    LET c == Cos(d)
        s == Sin(d)
        temp == <<Mul(1000 - c, axis[1]), Mul(1000 - c, axis[2]), Mul(1000 - c, axis[3])>>
    IN  << << c + Mul(temp[1], axis[1]),
              Mul(temp[2], axis[1]) - Mul(s, axis[3]),
              Mul(temp[3], axis[1]) + Mul(s, axis[2]), 0 >>,
           << Mul(temp[1], axis[2]) + Mul(s, axis[3]),
              c + Mul(temp[2], axis[2]),
              Mul(temp[3], axis[2]) - Mul(s, axis[1]), 0 >>,
           << Mul(temp[1], axis[3]) - Mul(s, axis[2]),
              Mul(temp[2], axis[3]) + Mul(s, axis[1]),
              c + Mul(temp[3], axis[3]), 0 >>,
           << 0, 0, 0, 1000 >> >>

\* a mistaken composition: the three rotations multiplied in the opposite order
ModelViewRotationsReversed(scaleXYZ, Xrot, Yrot, Zrot, positionXYZ) ==
    MatMul(glmTranslate(positionXYZ),
      MatMul(glmRotate(Xrot, <<1000, 0, 0>>),
        MatMul(glmRotate(Yrot, <<0, 1000, 0>>),
          MatMul(glmRotate(Zrot, <<0, 0, 1000>>), glmScale(scaleXYZ)))))

\* a mistaken composition: the scale applied last, after the translation
ModelViewScaleOutermost(scaleXYZ, Xrot, Yrot, Zrot, positionXYZ) ==
    MatMul(glmScale(scaleXYZ),
      MatMul(glmRotate(Zrot, <<0, 0, 1000>>),
        MatMul(glmRotate(Yrot, <<0, 1000, 0>>),
          MatMul(glmRotate(Xrot, <<1000, 0, 0>>), glmTranslate(positionXYZ)))))

\* a mistaken axis: the Y rotation turned about the X axis
ModelViewYawAboutX(scaleXYZ, Xrot, Yrot, Zrot, positionXYZ) ==
    MatMul(glmTranslate(positionXYZ),
      MatMul(glmRotate(Zrot, <<0, 0, 1000>>),
        MatMul(glmRotate(Yrot, <<1000, 0, 0>>),
          MatMul(glmRotate(Xrot, <<1000, 0, 0>>), glmScale(scaleXYZ)))))

\* modelView = translation * rotationZ * rotationY * rotationX * scale
ModelView(scaleXYZ, Xrot, Yrot, Zrot, positionXYZ) ==
    MatMul(glmTranslate(positionXYZ),
      MatMul(glmRotate(Zrot, <<0, 0, 1000>>),
        MatMul(glmRotate(Yrot, <<0, 1000, 0>>),
          MatMul(glmRotate(Xrot, <<1000, 0, 0>>), glmScale(scaleXYZ)))))

----------------------------------------------------------------------------
(* Shader parameter setters *)

\* a setter's body under "if (NULL != m_pShaderManager)"
Guarded(s, t) == IF s.m_pShaderManager = "NULL" THEN s ELSE t

SetTransformations(s, scaleXYZ, Xrot, Yrot, Zrot, positionXYZ) ==
    Guarded(s, setValue(s, "model", ModelView(scaleXYZ, Xrot, Yrot, Zrot, positionXYZ)))

SetShaderColor(s, currentColor) ==
    Guarded(s, setValue(setValue(s, "bUseTexture", FALSE), "objectColor", currentColor))

\* a mistaken lookup: the texture's GL name is uploaded instead of its slot
SetShaderTextureByID(s, textureTag) ==
    Guarded(s, setValue(setValue(s, "bUseTexture", TRUE),
                        "objectTexture", FindTextureID(s, textureTag)))

SetShaderTexture(s, textureTag) ==
    Guarded(s, setValue(setValue(s, "bUseTexture", TRUE),
                        "objectTexture", FindTextureSlot(s, textureTag)))

SetTextureUVScale(s, uv) == Guarded(s, setValue(s, "UVscale", uv))

\* uninit is what the local OBJECT_MATERIAL holds before FindMaterial is called
SetShaderMaterial(s, materialTag, uninit) ==
    IF Len(s.m_objectMaterials) > 0
    THEN LET r == FindMaterial(s, materialTag, uninit)
         IN  IF r.ret = TRUE
             THEN setValue(
                    setValue(
                      setValue(s, "material.diffuseColor", r.material.diffuseColor),
                      "material.specularColor", r.material.specularColor),
                    "material.shininess", r.material.shininess)
             ELSE s
    ELSE s

----------------------------------------------------------------------------
(* Scene setup *)

\* the images the four scene files decode to: textures/leaves3.jpg,
\* textures/leaves.jpg, textures/log.jpg, textures/stone.jpg
\* a mistaken setup: the textures are bound before they are loaded
LoadSceneTexturesBindFirst(s, files, clobber) ==
    LET s0 == BindGLTextures(s)
        s1 == CreateGLTexture(s0, SceneTextureTags[1], files[1], clobber).st
        s2 == CreateGLTexture(s1, SceneTextureTags[2], files[2], clobber).st
        s3 == CreateGLTexture(s2, SceneTextureTags[3], files[3], clobber).st
    IN  CreateGLTexture(s3, SceneTextureTags[4], files[4], clobber).st

LoadSceneTextures(s, files, clobber) ==
    LET s1 == CreateGLTexture(s, SceneTextureTags[1], files[1], clobber).st
        s2 == CreateGLTexture(s1, SceneTextureTags[2], files[2], clobber).st
        s3 == CreateGLTexture(s2, SceneTextureTags[3], files[3], clobber).st
        s4 == CreateGLTexture(s3, SceneTextureTags[4], files[4], clobber).st
    IN  BindGLTextures(s4)

RECURSIVE setAll(_, _)
setAll(s, writes) ==
    IF writes = <<>> THEN s
    ELSE setAll(setValue(s, writes[1][1], writes[1][2]), Tail(writes))

\* a mistaken setup: the point light's bActive is left out
SetupSceneLightsPointLightOff(s) ==
    setAll(s, << <<"bUseLighting", TRUE>>,
                 <<"directionalLight.direction", <<-4000, -1000, -1000>> >>,
                 <<"directionalLight.ambient", <<500, 500, 500>> >>,
                 <<"directionalLight.diffuse", <<2000, 2000, 2000>> >>,
                 <<"directionalLight.specular", <<0, 0, 0>> >>,
                 <<"directionalLight.bActive", TRUE>>,
                 <<"pointLights[1].position", <<30000, 20000, -80000>> >>,
                 <<"pointLights[1].direction", <<-4000, -1000, -1000>> >>,
                 <<"pointLights[1].ambient", <<50, 100, 100>> >>,
                 <<"pointLights[1].diffuse", <<50, 800, 800>> >>,
                 <<"pointLights[1].specular", <<50, 500, 500>> >> >>)

SetupSceneLights(s) ==
    setAll(s, << <<"bUseLighting", TRUE>>,
                 <<"directionalLight.direction", <<-4000, -1000, -1000>> >>,
                 <<"directionalLight.ambient", <<500, 500, 500>> >>,
                 <<"directionalLight.diffuse", <<2000, 2000, 2000>> >>,
                 <<"directionalLight.specular", <<0, 0, 0>> >>,
                 <<"directionalLight.bActive", TRUE>>,
                 <<"pointLights[1].position", <<30000, 20000, -80000>> >>,
                 <<"pointLights[1].direction", <<-4000, -1000, -1000>> >>,
                 <<"pointLights[1].ambient", <<50, 100, 100>> >>,
                 <<"pointLights[1].diffuse", <<50, 800, 800>> >>,
                 <<"pointLights[1].specular", <<50, 500, 500>> >>,
                 <<"pointLights[1].bActive", TRUE>> >>)

\* m_basicMeshes->LoadPlaneMesh() ... LoadPyramid3Mesh()
LoadMeshes(s) ==
    [s EXCEPT !.m_basicMeshes = s.m_basicMeshes \cup {"plane", "cylinder", "sphere", "pyramid3"}]

\* a crash ends the call: the statements after it do not run
PrepareScene(s, files, clobber) ==
    LET s1 == SetupSceneLights(DefineObjectMaterials(s))
    IN  IF s1.crashed THEN s1 ELSE LoadMeshes(LoadSceneTextures(s1, files, clobber))


----------------------------------------------------------------------------
(* Scene rendering *)

\* m_basicMeshes->DrawXMesh(): the draw is issued with the uniforms as they are;
\* the lighting stage reads objectTexture when bUseTexture and objectColor
\* otherwise
DrawMesh(s, kind) ==
    IF s.crashed THEN s
    ELSE [s EXCEPT !.written = {}, !.draws = Append(s.draws,
            [kind |-> kind,
             fresh |-> s.written,
             loaded |-> kind \in s.m_basicMeshes,
             bindPending |-> s.bindPending,
             model |-> s.uniforms["model"],
             bUseTexture |-> s.uniforms["bUseTexture"],
             objectColor |-> IF s.uniforms["bUseTexture"] = TRUE THEN <<>>
                             ELSE s.uniforms["objectColor"],
             objectTexture |-> IF s.uniforms["bUseTexture"] = TRUE
                               THEN s.uniforms["objectTexture"] ELSE -2,
             material |-> <<s.uniforms["material.diffuseColor"],
                            s.uniforms["material.specularColor"],
                            s.uniforms["material.shininess"]>>])]

\* the block of an untextured shape: SetTransformations, SetShaderColor,
\* SetShaderMaterial, draw
ColoredShape(s, kind, scaleXYZ, Xrot, positionXYZ, color, materialTag, uninit) ==
    DrawMesh(
        SetShaderMaterial(
            SetShaderColor(SetTransformations(s, scaleXYZ, Xrot, 0, 0, positionXYZ), color),
            materialTag, uninit),
        kind)

\* a mistaken block: the SetShaderMaterial call is left out
TexturedShapeNoMaterial(s, kind, scaleXYZ, Yrot, positionXYZ, color, textureTag, materialTag, uninit) ==
    DrawMesh(
        SetShaderTexture(
            SetShaderColor(SetTransformations(s, scaleXYZ, 0, Yrot, 0, positionXYZ), color),
            textureTag),
        kind)

\* the block of a textured shape: SetTransformations, SetShaderColor,
\* SetShaderTexture, SetShaderMaterial, draw
TexturedShape(s, kind, scaleXYZ, Yrot, positionXYZ, color, textureTag, materialTag, uninit) ==
    DrawMesh(
        SetShaderMaterial(
            SetShaderTexture(
                SetShaderColor(SetTransformations(s, scaleXYZ, 0, Yrot, 0, positionXYZ), color),
                textureTag),
            materialTag, uninit),
        kind)

\* the last block of DrawSphericalTree: SetShaderMaterial before SetShaderTexture
TexturedShapeMaterialFirst(s, kind, scaleXYZ, positionXYZ, color, textureTag, materialTag, uninit) ==
    DrawMesh(
        SetShaderTexture(
            SetShaderMaterial(
                SetShaderColor(SetTransformations(s, scaleXYZ, 0, 0, 0, positionXYZ), color),
                materialTag, uninit),
            textureTag),
        kind)

\* glm::vec3(dx + posx, dy + posy, dz + posz)
Offset(posx, posy, posz, dx, dy, dz) == <<dx + posx, dy + posy, dz + posz>>

DrawPlanes(s, posx, posy, posz, uninit) ==
    LET s1 == ColoredShape(s, "plane", <<200000, 1000, 200000>>, 0,
                           Offset(posx, posy, posz, 0, 0, 0),
                           <<0, 502, 0, 1000>>, "greenery", uninit)
    IN  ColoredShape(s1, "plane", <<300000, 1000, 300000>>, 90,
                     Offset(posx, posy, posz, 0, 15000, -50000),
                     <<416, 835, 851, 1000>>, "sky", uninit)

DrawSphericalTree(s, posx, posy, posz, uninit) ==
    LET s1 == TexturedShape(s, "cylinder", <<1000, 8000, 1000>>, 0,
                            Offset(posx, posy, posz, 0, 0, 0),
                            <<235, 702, 443, 1000>>, "log", "wood", uninit)
        s2 == ColoredShape(s1, "sphere", <<2000, 2000, 2000>>, 0,
                           Offset(posx, posy, posz, 0, 8000, 0),
                           <<235, 702, 443, 1000>>, "greenery", uninit)
    IN  TexturedShapeMaterialFirst(s2, "sphere", <<4000, 4000, 4000>>,
                                   Offset(posx, posy, posz, 0, 10000, 0),
                                   <<65, 532, 273, 1000>>, "leaves", "greenery", uninit)

DrawPyramidTree(s, posx, posy, posz, uninit) ==
    LET s1 == TexturedShape(s, "cylinder", <<1000, 8000, 1000>>, 0,
                            Offset(posx, posy, posz, 12000, 0, 0),
                            <<235, 702, 443, 1000>>, "log", "wood", uninit)
        s2 == TexturedShape(s1, "pyramid3", <<9000, 9000, 9000>>, 0,
                            Offset(posx, posy, posz, 12000, 10500, -500),
                            <<65, 532, 273, 1000>>, "pineleaves", "greenery", uninit)
        s3 == TexturedShape(s2, "pyramid3", <<7000, 7000, 7000>>, 0,
                            Offset(posx, posy, posz, 12000, 15000, -500),
                            <<65, 532, 273, 1000>>, "pineleaves", "greenery", uninit)
    IN  TexturedShape(s3, "pyramid3", <<5000, 5000, 5000>>, 0,
                      Offset(posx, posy, posz, 12000, 19000, -500),
                      <<65, 532, 273, 1000>>, "pineleaves", "greenery", uninit)

DrawMountain(s, posx, posy, posz, scale, uninit) ==
    TexturedShape(s, "pyramid3", <<scale, scale, scale>>, 180,
                  Offset(posx, posy, posz, 0, 0, 0),
                  <<500, 500, 500, 1000>>, "stone", "wood", uninit)

\* one sphere of a cloud: glm::vec3(a * scale, b * scale, c * scale)
CloudPart(s, a, b, c, scale, Xrot, positionXYZ, uninit) ==
    ColoredShape(s, "sphere", <<Mul(a, scale), Mul(b, scale), Mul(c, scale)>>, Xrot,
                 positionXYZ, <<900, 900, 900, 1000>>, "wood", uninit)

DrawCloud(s, posx, posy, posz, scale, uninit) ==
    LET s1 == CloudPart(s, 1500, 1000, 1500, scale, 0,
                        Offset(posx, posy, posz, 0, 1500, 0), uninit)
        s2 == CloudPart(s1, 3000, 2000, 3000, scale, 0,
                        Offset(posx, posy, posz, -3500, 0, 500), uninit)
        s3 == CloudPart(s2, 3000, 2000, 3000, scale, 0,
                        Offset(posx, posy, posz, 3250, 0, -500), uninit)
        s4 == CloudPart(s3, 4000, 3000, 4000, scale, 0,
                        Offset(posx, posy, posz, 500, -1000, 2000), uninit)
        s5 == CloudPart(s4, 3000, 2000, 3000, scale, 0,
                        Offset(posx, posy, posz, -5000, -500, 1000), uninit)
    IN  CloudPart(s5, 4000, 2000, 4000, scale, 15,
                  Offset(posx, posy, posz, 5500, 0, -1250), uninit)

\* the calls of RenderScene, in order: the shape, its position and its scale
SceneCalls ==
    << <<"Planes", 0, 0, -100000, 0>>,
       <<"PyramidTree", -5000, 0, -30000, 0>>,
       <<"PyramidTree", 5000, 0, -10000, 0>>,
       <<"SphericalTree", -45000, 0, -15000, 0>>,
       <<"SphericalTree", -40000, 0, -35000, 0>>,
       <<"PyramidTree", 45000, 0, -10000, 0>>,
       <<"SphericalTree", 50000, 0, -35000, 0>>,
       <<"Mountain", -50000, 25000, -80000, 50000>>,
       <<"Mountain", -30000, 15000, -120000, 30000>>,
       <<"Mountain", 40000, 10000, -80000, 20000>>,
       <<"Mountain", 55000, 24000, -120000, 48000>>,
       <<"Mountain", 70000, 10000, -80000, 20000>>,
       <<"Cloud", 10000, 100000, -80000, 2000>>,
       <<"Cloud", -50000, 85000, -90000, 2000>>,
       <<"Cloud", 50000, 50000, -70000, 2000>> >>

DrawCall(s, c, uninit) ==
    CASE c[1] = "Planes" -> DrawPlanes(s, c[2], c[3], c[4], uninit)
      [] c[1] = "PyramidTree" -> DrawPyramidTree(s, c[2], c[3], c[4], uninit)
      [] c[1] = "SphericalTree" -> DrawSphericalTree(s, c[2], c[3], c[4], uninit)
      [] c[1] = "Mountain" -> DrawMountain(s, c[2], c[3], c[4], c[5], uninit)
      [] c[1] = "Cloud" -> DrawCloud(s, c[2], c[3], c[4], c[5], uninit)

\* the calls from the i-th on; the process ends where a call crashes
RECURSIVE RenderCalls(_, _, _)
RenderCalls(s, i, uninit) ==
    IF i > Len(SceneCalls) \/ s.crashed THEN s
    ELSE RenderCalls(DrawCall(s, SceneCalls[i], uninit), i + 1, uninit)

\* uninit is what the locals of SetShaderMaterial hold before FindMaterial is called
RenderScene(s, uninit) ==
    RenderCalls([s EXCEPT !.draws = <<>>, !.written = {}], 1, uninit)

----------------------------------------------------------------------------
(* The lighting stage: shaders/fragmentShader.glsl.  u is the uniform state, g  *)
(* the OpenGL context, f the fragment: its interpolated position, normal and    *)
(* texture coordinate, and the value an operation of unspecified result gives.  *)

\* a / b; a division by zero has an unspecified result
Div(a, b, unspecified) == IF b = 0 THEN unspecified ELSE (a * 1000) \div b

RECURSIVE SqrtSearch(_, _, _)
SqrtSearch(n, lo, hi) ==
    IF lo >= hi THEN lo
    ELSE LET mid == (lo + hi + 1) \div 2
         IN  IF mid * mid <= n THEN SqrtSearch(n, mid, hi) ELSE SqrtSearch(n, lo, mid - 1)

\* sqrt(a), to the thousandth for the small values and to the tenth beyond
Sqrt(a) ==
    IF a <= 2000000
    THEN SqrtSearch(a * 1000, 0, 46340)
    ELSE 100 * SqrtSearch(a \div 10, 0, 46340)

Max(a, b) == IF a >= b THEN a ELSE b

\* clamp(x, lo, hi) = min(max(x, lo), hi)
Clamp(x, lo, hi) == IF Max(x, lo) <= hi THEN Max(x, lo) ELSE hi

\* pow(x, y) for the whole exponents y; pow(0, y) is unspecified for y <= 0
RECURSIVE Pow(_, _, _)
Pow(x, y, unspecified) ==
    IF x = 0 /\ y <= 0 THEN unspecified
    ELSE IF y < 1000 THEN 1000
    ELSE Mul(x, Pow(x, y - 1000, 1000))

VAdd(a, b) == <<a[1] + b[1], a[2] + b[2], a[3] + b[3]>>

VSub(a, b) == <<a[1] - b[1], a[2] - b[2], a[3] - b[3]>>

VNeg(a) == <<-a[1], -a[2], -a[3]>>

\* vec3 * vec3, by component
VMul(a, b) == <<Mul(a[1], b[1]), Mul(a[2], b[2]), Mul(a[3], b[3])>>

\* vec3 * float
VScale(a, k) == <<Mul(a[1], k), Mul(a[2], k), Mul(a[3], k)>>

VDot(a, b) == Mul(a[1], b[1]) + Mul(a[2], b[2]) + Mul(a[3], b[3])

VLength(a) == Sqrt(VDot(a, a))

\* normalize(a) = a / length(a)
Normalize(a, unspecified) ==
    LET len == VLength(a)
    IN  <<Div(a[1], len, unspecified), Div(a[2], len, unspecified),
          Div(a[3], len, unspecified)>>

\* reflect(I, N) = I - 2 * dot(N, I) * N
Reflect(I, N) == VSub(I, VScale(N, 2 * VDot(N, I)))

\* vec3(v) of a vec4
Vec3(v) == <<v[1], v[2], v[3]>>

\* the image glTexImage2D gave the texture called name, at the texel under
\* the coordinate st wrapped by GL_REPEAT: two by two texels, told apart by name
TexImage(name, st) ==
    LET col == ((st[1] % 1000) \div 500)
        row == ((st[2] % 1000) \div 500)
    IN  <<100 * name, 200 + 600 * col, 300 + 500 * row, 1000 - 100 * (col + row)>>

\* texture(objectTexture, st): the texture bound on the unit the sampler names;
\* a unit with no texture samples as opaque black
Texture(u, g, st) ==
    LET unit == u["objectTexture"]
    IN  IF unit \in DOMAIN g.bound /\ g.bound[unit] # 0
        THEN TexImage(g.bound[unit], st)
        ELSE <<0, 0, 0, 1000>>

\* vec2 fragmentTextureCoordinateScaled = fragmentTextureCoordinate * UVscale
fragmentTextureCoordinateScaled(u, f) ==
    <<Mul(f.fragmentTextureCoordinate[1], u["UVscale"][1]),
      Mul(f.fragmentTextureCoordinate[2], u["UVscale"][2])>>

\* the colour the ambient and diffuse terms are multiplied by: the texture
\* sample when bUseTexture, the object colour otherwise
SurfaceColor(u, g, f) ==
    IF u["bUseTexture"] = TRUE
    THEN Vec3(Texture(u, g, fragmentTextureCoordinateScaled(u, f)))
    ELSE Vec3(u["objectColor"])

\* the three terms a light function sums
Terms(ambient, diffuse, specular) ==
    [ambient |-> ambient, diffuse |-> diffuse, specular |-> specular]

SumTerms(t) == VAdd(VAdd(t.ambient, t.diffuse), t.specular)

\* CalcDirectionalLight up to "combine results"
DirectionalTerms(u, g, f, normal, viewDir) ==
    LET lightDirection == Normalize(VNeg(u["directionalLight.direction"]), f.unspecified)
        diff == Max(VDot(normal, lightDirection), 0)
        reflectDir == Reflect(VNeg(lightDirection), normal)
        spec == Pow(Max(VDot(viewDir, reflectDir), 0), u["material.shininess"], f.unspecified)
        surface == SurfaceColor(u, g, f)
    IN  Terms(VMul(u["directionalLight.ambient"], surface),
              VMul(VMul(VScale(u["directionalLight.diffuse"], diff),
                        u["material.diffuseColor"]), surface),
              VMul(VMul(VScale(u["directionalLight.specular"], spec),
                        u["material.specularColor"]), surface))

CalcDirectionalLight(u, g, f, normal, viewDir) ==
    SumTerms(DirectionalTerms(u, g, f, normal, viewDir))

PointLightNames ==
    <<"pointLights[0]", "pointLights[1]", "pointLights[2]", "pointLights[3]", "pointLights[4]">>

\* a mistaken combination: the specular term multiplied by the surface colour
PointTermsSurfaceSpecular(u, g, f, light, normal, viewDir) ==
    LET lightDir == Normalize(VSub(u[light \o ".position"], f.fragmentPosition), f.unspecified)
        diff == Max(VDot(normal, lightDir), 0)
        reflectDir == Reflect(VNeg(lightDir), normal)
        specularComponent ==
            Pow(Max(VDot(viewDir, reflectDir), 0), u["material.shininess"], f.unspecified)
        surface == SurfaceColor(u, g, f)
    IN  Terms(VMul(u[light \o ".ambient"], surface),
              VMul(VMul(VScale(u[light \o ".diffuse"], diff),
                        u["material.diffuseColor"]), surface),
              VMul(VMul(VScale(u[light \o ".specular"], specularComponent),
                        u["material.specularColor"]), surface))

\* CalcPointLight up to "combine results", for the light pointLights[i] names
PointTerms(u, g, f, light, normal, viewDir) ==
    LET lightDir == Normalize(VSub(u[light \o ".position"], f.fragmentPosition), f.unspecified)
        diff == Max(VDot(normal, lightDir), 0)
        reflectDir == Reflect(VNeg(lightDir), normal)
        specularComponent ==
            Pow(Max(VDot(viewDir, reflectDir), 0), u["material.shininess"], f.unspecified)
        surface == SurfaceColor(u, g, f)
    IN  Terms(VMul(u[light \o ".ambient"], surface),
              VMul(VMul(VScale(u[light \o ".diffuse"], diff),
                        u["material.diffuseColor"]), surface),
              VMul(VScale(u[light \o ".specular"], specularComponent),
                   u["material.specularColor"]))

CalcPointLight(u, g, f, light, normal, viewDir) ==
    SumTerms(PointTerms(u, g, f, light, normal, viewDir))

\* dot(lightDir, normalize(-light.direction)) of CalcSpotLight
SpotTheta(u, f) ==
    VDot(Normalize(VSub(u["spotLight.position"], f.fragmentPosition), f.unspecified),
         Normalize(VNeg(u["spotLight.direction"]), f.unspecified))

\* float attenuation of CalcSpotLight
SpotAttenuation(u, f) ==
    LET distance == VLength(VSub(u["spotLight.position"], f.fragmentPosition))
    IN  Div(1000, u["spotLight.constant"] + Mul(u["spotLight.linear"], distance)
                      + Mul(u["spotLight.quadratic"], Mul(distance, distance)),
            f.unspecified)

\* a mistaken ramp: the quotient is not clamped
SpotIntensityUnclamped(u, f) ==
    Div(SpotTheta(u, f) - u["spotLight.outerCutOff"],
        u["spotLight.cutOff"] - u["spotLight.outerCutOff"], f.unspecified)

\* float intensity of CalcSpotLight
SpotIntensity(u, f) ==
    LET epsilon == u["spotLight.cutOff"] - u["spotLight.outerCutOff"]
    IN  Clamp(Div(SpotTheta(u, f) - u["spotLight.outerCutOff"], epsilon, f.unspecified),
              0, 1000)

\* CalcSpotLight up to "combine results"
SpotTerms(u, g, f, normal, viewDir) ==
    LET lightDir == Normalize(VSub(u["spotLight.position"], f.fragmentPosition), f.unspecified)
        diff == Max(VDot(normal, lightDir), 0)
        reflectDir == Reflect(VNeg(lightDir), normal)
        spec == Pow(Max(VDot(viewDir, reflectDir), 0), u["material.shininess"], f.unspecified)
        surface == SurfaceColor(u, g, f)
    IN  Terms(VMul(u["spotLight.ambient"], surface),
              VMul(VMul(VScale(u["spotLight.diffuse"], diff),
                        u["material.diffuseColor"]), surface),
              VMul(VMul(VScale(u["spotLight.specular"], spec),
                        u["material.specularColor"]), surface))

\* a mistaken scaling: the specular term is left out of "*= attenuation * intensity"
CalcSpotLightSpecularUnscaled(u, g, f, normal, viewDir) ==
    LET t == SpotTerms(u, g, f, normal, viewDir)
        k == Mul(SpotAttenuation(u, f), SpotIntensity(u, f))
    IN  SumTerms(Terms(VScale(t.ambient, k), VScale(t.diffuse, k), t.specular))

CalcSpotLight(u, g, f, normal, viewDir) ==
    LET t == SpotTerms(u, g, f, normal, viewDir)
        k == Mul(SpotAttenuation(u, f), SpotIntensity(u, f))
    IN  SumTerms(Terms(VScale(t.ambient, k), VScale(t.diffuse, k), VScale(t.specular, k)))

\* the loop over pointLights[i], i from 0, adding the active lights to phongResult
RECURSIVE PointLightLoop(_, _, _, _, _, _, _)
PointLightLoop(u, g, f, norm, viewDir, i, phongResult) ==
    IF i < Len(PointLightNames)
    THEN PointLightLoop(u, g, f, norm, viewDir, i + 1,
             IF u[PointLightNames[i + 1] \o ".bActive"] = TRUE
             THEN VAdd(phongResult,
                       CalcPointLight(u, g, f, PointLightNames[i + 1], norm, viewDir))
             ELSE phongResult)
    ELSE phongResult

\* phongResult after the three phases
PhongResult(u, g, f) ==
    LET norm == Normalize(f.fragmentVertexNormal, f.unspecified)
        viewDir == Normalize(VSub(u["viewPosition"], f.fragmentPosition), f.unspecified)
        p1 == IF u["directionalLight.bActive"] = TRUE
              THEN CalcDirectionalLight(u, g, f, norm, viewDir)
              ELSE <<0, 0, 0>>
        p2 == PointLightLoop(u, g, f, norm, viewDir, 0, p1)
    IN  IF u["spotLight.bActive"] = TRUE
        THEN VAdd(p2, CalcSpotLight(u, g, f, norm, viewDir))
        ELSE p2

\* a mistaken branch: the lighting runs whatever bUseLighting says
mainAlwaysLit(u, g, f) ==
    LET phongResult == PhongResult(u, g, f)
        alpha == IF u["bUseTexture"] = TRUE
                 THEN Texture(u, g, fragmentTextureCoordinateScaled(u, f))[4]
                 ELSE u["objectColor"][4]
    IN  <<phongResult[1], phongResult[2], phongResult[3], alpha>>

\* void main(): the value it leaves in fragmentColor
main(u, g, f) ==
    IF u["bUseLighting"] = TRUE
    THEN LET phongResult == PhongResult(u, g, f)
         IN  IF u["bUseTexture"] = TRUE
             THEN <<phongResult[1], phongResult[2], phongResult[3],
                    Texture(u, g, fragmentTextureCoordinateScaled(u, f))[4]>>
             ELSE <<phongResult[1], phongResult[2], phongResult[3], u["objectColor"][4]>>
    ELSE IF u["bUseTexture"] = TRUE
         THEN Texture(u, g, fragmentTextureCoordinateScaled(u, f))
         ELSE u["objectColor"]

----------------------------------------------------------------------------
(* Initial state *)

\* the value of m_loadedTextures when the object has been constructed
InitialLoadedTextures == 0

ZeroMatrix == << <<0, 0, 0, 0>>, <<0, 0, 0, 0>>, <<0, 0, 0, 0>>, <<0, 0, 0, 0>> >>

\* no fragment has been shaded
NoFragment ==
    [fragmentPosition |-> <<0, 0, 0>>, fragmentVertexNormal |-> <<0, 0, 0>>,
     fragmentTextureCoordinate |-> <<0, 0>>, unspecified |-> 0]

\* the uniforms of the fragment shader with their initializers, and "model"
InitialUniforms ==
    [n \in {"model", "objectColor", "objectTexture", "bUseTexture", "bUseLighting", "UVscale",
            "material.diffuseColor", "material.specularColor", "material.shininess",
            "directionalLight.direction", "directionalLight.ambient",
            "directionalLight.diffuse", "directionalLight.specular",
            "directionalLight.bActive", "spotLight.bActive",
            "pointLights[1].position", "pointLights[1].ambient",
            "pointLights[1].diffuse", "pointLights[1].specular",
            "pointLights[0].bActive", "pointLights[1].bActive", "pointLights[2].bActive",
            "pointLights[3].bActive", "pointLights[4].bActive",
            "viewPosition",
            "pointLights[0].position", "pointLights[0].ambient",
            "pointLights[0].diffuse", "pointLights[0].specular",
            "pointLights[2].position", "pointLights[2].ambient",
            "pointLights[2].diffuse", "pointLights[2].specular",
            "pointLights[3].position", "pointLights[3].ambient",
            "pointLights[3].diffuse", "pointLights[3].specular",
            "pointLights[4].position", "pointLights[4].ambient",
            "pointLights[4].diffuse", "pointLights[4].specular",
            "spotLight.position", "spotLight.direction", "spotLight.cutOff",
            "spotLight.outerCutOff", "spotLight.constant", "spotLight.linear",
            "spotLight.quadratic", "spotLight.ambient", "spotLight.diffuse",
            "spotLight.specular"} |->
        CASE n = "model" -> ZeroMatrix
          [] n = "objectColor" -> <<1000, 1000, 1000, 1000>>
          [] n = "UVscale" -> <<1000, 1000>>
          [] n \in {"objectTexture", "material.shininess", "spotLight.cutOff",
                    "spotLight.outerCutOff", "spotLight.constant", "spotLight.linear",
                    "spotLight.quadratic"} -> 0
          [] n \in {"bUseTexture", "bUseLighting", "directionalLight.bActive",
                    "spotLight.bActive", "pointLights[0].bActive", "pointLights[1].bActive",
                    "pointLights[2].bActive", "pointLights[3].bActive",
                    "pointLights[4].bActive"} -> FALSE
          [] OTHER -> <<0, 0, 0>>]

Init ==
    /\ m_pShaderManager \in {"NULL", "valid"}
    /\ m_basicMeshes = {}
    /\ m_textureIDs = [i \in 0..(MAX_TEXTURES - 1) |-> NoEntry]
    /\ m_loadedTextures = InitialLoadedTextures
    /\ beyond = [i \in MAX_TEXTURES..(MAX_TEXTURES + MaxOverflow - 1) |-> NoEntry]
    /\ m_objectMaterials = <<>>
    /\ gl = [names |-> {}, active |-> 0, bound |-> [u \in Units |-> 0]]
    /\ uniforms = InitialUniforms
    /\ crashed = FALSE
    /\ loadLog = <<>>
    /\ lastCall = [op |-> "SceneManager", arg |-> <<>>, ret |-> <<>>]
    /\ imageFiles \in SceneDecodes
    /\ fragment = NoFragment
    /\ fragmentColor = <<0, 0, 0, 0>>
    /\ draws = <<>>
    /\ bindPending = FALSE

\* the four scene image files are all there and decode to RGB
InitGoodFiles == Init /\ imageFiles = [i \in 1..4 |-> 3]

\* the state a successful PrepareScene leaves on a new object
SetupState ==
    PrepareScene(
        [m_pShaderManager |-> "valid", m_basicMeshes |-> {},
         m_textureIDs |-> [i \in 0..(MAX_TEXTURES - 1) |-> NoEntry],
         m_loadedTextures |-> InitialLoadedTextures,
         beyond |-> [i \in MAX_TEXTURES..(MAX_TEXTURES + MaxOverflow - 1) |-> NoEntry],
         m_objectMaterials |-> <<>>,
         gl |-> [names |-> {}, active |-> 0, bound |-> [u \in Units |-> 0]],
         uniforms |-> InitialUniforms, crashed |-> FALSE, loadLog |-> <<>>,
         draws |-> <<>>, bindPending |-> FALSE, written |-> {}],
        [i \in 1..4 |-> 3], FALSE)

\* the uniform state u with the uniforms that o names set to o's values
Override(u, o) == [n \in DOMAIN u |-> IF n \in DOMAIN o THEN o[n] ELSE u[n]]

\* the parameters of the lights the shader is tried with: a directional light,
\* the point lights 0 and 4 and the spot light (point light 1 keeps the scene's)
LightParameters ==
    [n \in {"viewPosition", "directionalLight.direction", "directionalLight.ambient",
            "directionalLight.diffuse", "directionalLight.specular",
            "pointLights[0].position", "pointLights[0].ambient",
            "pointLights[0].diffuse", "pointLights[0].specular",
            "pointLights[4].position", "pointLights[4].ambient",
            "pointLights[4].diffuse", "pointLights[4].specular",
            "spotLight.position", "spotLight.direction", "spotLight.ambient",
            "spotLight.diffuse", "spotLight.specular"} |->
        CASE n = "viewPosition" -> <<0, 4000, 3000>>
          [] n = "directionalLight.direction" -> <<3000, -4000, 0>>
          [] n = "spotLight.direction" -> <<0, -2000, 0>>
          [] n \in {"pointLights[0].position", "spotLight.position"} -> <<0, 4000, 0>>
          [] n = "pointLights[4].position" -> <<4000, 3000, 0>>
          [] n \in {"directionalLight.ambient", "pointLights[0].ambient",
                    "pointLights[4].ambient", "spotLight.ambient"} -> <<100, 200, 300>>
          [] n \in {"directionalLight.diffuse", "pointLights[0].diffuse",
                    "pointLights[4].diffuse", "spotLight.diffuse"} -> <<1000, 500, 2000>>
          [] OTHER -> <<500, 1000, 300>>]

LightFlags ==
    <<"directionalLight.bActive", "pointLights[0].bActive", "pointLights[1].bActive",
      "pointLights[2].bActive", "pointLights[3].bActive", "pointLights[4].bActive",
      "spotLight.bActive">>

\* the lights of the set on are active, the others are not
Active(on) == [n \in {LightFlags[i] : i \in 1..7} |-> n \in on]

\* a spot light's cone and attenuation
Cone(cutOff, outerCutOff, constant, linear, quadratic) ==
    [n \in {"spotLight.cutOff", "spotLight.outerCutOff", "spotLight.constant",
            "spotLight.linear", "spotLight.quadratic"} |->
        CASE n = "spotLight.cutOff" -> cutOff
          [] n = "spotLight.outerCutOff" -> outerCutOff
          [] n = "spotLight.constant" -> constant
          [] n = "spotLight.linear" -> linear
          [] OTHER -> quadratic]

\* an inner cone inside the outer one, twice; one with no attenuation coefficients
\* set; a cone with one edge; the two cutoffs exchanged
SpotCones ==
    { Cone(900, 700, 1000, 100, 10), Cone(800, 600, 1000, 100, 10),
      Cone(900, 700, 0, 0, 0), Cone(700, 700, 1000, 100, 10),
      Cone(600, 800, 1000, 100, 10) }

\* which lights are active, and the spot light's cone
LightRigs ==
    { Active(on) @@ Cone(900, 700, 1000, 100, 10) :
        on \in { {}, {"directionalLight.bActive"}, {"pointLights[0].bActive"},
                 {"pointLights[1].bActive"}, {"pointLights[4].bActive"},
                 {LightFlags[i] : i \in 1..7} } }
    \cup { Active({"spotLight.bActive"}) @@ cone : cone \in SpotCones }

ShaderMaterials ==
    { [n \in {"material.diffuseColor", "material.specularColor", "material.shininess"} |->
          CASE n = "material.shininess" -> m[3]
            [] n = "material.diffuseColor" -> m[1]
            [] OTHER -> m[2]] :
        m \in { << <<1000, 1000, 1000>>, <<1000, 1000, 1000>>, 0 >>,
                << <<500, 1000, 200>>, <<200, 300, 400>>, 2000 >> } }

\* texturing off, or on with the sampler on unit 0 or unit 3
TextureChoices ==
    { [n \in {"bUseTexture", "objectTexture"} |-> IF n = "bUseTexture" THEN c[1] ELSE c[2]] :
        c \in { <<FALSE, 0>>, <<TRUE, 0>>, <<TRUE, 3>> } }

\* the uniform states the lighting stage is tried with
ShaderUniforms ==
    { Override(Override(SetupState.uniforms, LightParameters),
               rig @@ mat @@ tex @@
               [n \in {"bUseLighting", "objectColor", "UVscale"} |->
                   CASE n = "bUseLighting" -> lit [] n = "objectColor" -> color
                     [] OTHER -> uv]) :
        rig \in LightRigs, mat \in ShaderMaterials, tex \in TextureChoices,
        lit \in BOOLEAN, color \in Colors, uv \in UVs }

\* the fragments the lighting stage is tried on: on the plane y = 0 and above it,
\* with a normal of length 2
Fragments ==
    { [fragmentPosition |-> p, fragmentVertexNormal |-> <<0, 2000, 0>>,
       fragmentTextureCoordinate |-> tc, unspecified |-> x] :
        p \in { <<0, 0, 0>>, <<3000, 0, 0>>, <<4000, 1000, 0>>, <<4000, 4000, 0>> },
        tc \in { <<250, 250>>, <<750, 250>> },
        x \in {0, 2500} }

\* after a setup, with the uniforms of the lighting stage set from outside
InitShader ==
    /\ m_pShaderManager = SetupState.m_pShaderManager
    /\ m_basicMeshes = SetupState.m_basicMeshes
    /\ m_textureIDs = SetupState.m_textureIDs
    /\ m_loadedTextures = SetupState.m_loadedTextures
    /\ beyond = SetupState.beyond
    /\ m_objectMaterials = SetupState.m_objectMaterials
    /\ gl = SetupState.gl
    /\ uniforms \in ShaderUniforms
    /\ crashed = FALSE
    /\ loadLog = SetupState.loadLog
    /\ lastCall = [op |-> "PrepareScene", arg |-> [i \in 1..4 |-> 3], ret |-> <<>>]
    /\ imageFiles = [i \in 1..4 |-> 3]
    /\ fragment = NoFragment
    /\ fragmentColor = <<0, 0, 0, 0>>
    /\ draws = <<>>
    /\ bindPending = FALSE

----------------------------------------------------------------------------
(* Actions: one per method, called on a live object *)

Call(op, arg, ret, s) ==
    /\ Commit(s)
    /\ lastCall' = [op |-> op, arg |-> arg, ret |-> ret]
    /\ UNCHANGED <<imageFiles, fragment, fragmentColor>>

\* the number of registrations the model follows
Room(s) == (MAX_TEXTURES + MaxOverflow) - s.m_loadedTextures

Good(files) == Cardinality({i \in 1..4 : files[i] \in {3, 4}})

DoCreateGLTexture ==
    /\ ~crashed
    /\ Room(S) >= 1
    /\ \E tag \in FreeTags, channels \in Channels, clobber \in BOOLEAN :
         /\ \/ channels = 0
            \/ Cardinality(gl.names) < MaxFreeLoads
            \/ m_loadedTextures = MAX_TEXTURES /\ channels \in {3, 4}
         /\ clobber => (m_loadedTextures >= MAX_TEXTURES /\ channels \in {3, 4})
         /\ LET r == CreateGLTexture(S, tag, channels, clobber)
            IN  Call("CreateGLTexture", <<tag, channels>>, r.ret, r.st)

DoBindGLTextures ==
    /\ ~crashed
    /\ Call("BindGLTextures", <<>>, <<>>, BindGLTextures(S))

DoFindTextureID ==
    /\ ~crashed
    /\ \E tag \in LookupTags :
         Call("FindTextureID", <<tag>>, FindTextureID(S, tag), S)

DoFindTextureSlot ==
    /\ ~crashed
    /\ \E tag \in LookupTags :
         Call("FindTextureSlot", <<tag>>, FindTextureSlot(S, tag), S)

DoDefineObjectMaterials ==
    /\ ~crashed
    /\ Len(m_objectMaterials) < 3 * MaxDefines
    /\ Call("DefineObjectMaterials", <<>>, <<>>, DefineObjectMaterials(S))

DoFindMaterial(tags) ==
    /\ ~crashed
    /\ \E tag \in tags, material \in UninitMaterials :
         LET r == FindMaterial(S, tag, material)
         IN  Call("FindMaterial", <<tag, material>>, <<r.ret, r.material>>, S)

DoSetShaderMaterial(tags) ==
    /\ ~crashed
    /\ \E tag \in tags, uninit \in UninitMaterials :
         Call("SetShaderMaterial", <<tag>>, <<>>, SetShaderMaterial(S, tag, uninit))

DoSetShaderColor(colors) ==
    /\ ~crashed
    /\ \E c \in colors : Call("SetShaderColor", <<c>>, <<>>, SetShaderColor(S, c))

DoSetShaderTexture ==
    /\ ~crashed
    /\ \E tag \in LookupTags :
         Call("SetShaderTexture", <<tag>>, <<>>, SetShaderTexture(S, tag))

DoSetTextureUVScale(uvs) ==
    /\ ~crashed
    /\ \E uv \in uvs : Call("SetTextureUVScale", <<uv>>, <<>>, SetTextureUVScale(S, uv))

Scales == {<<1000, 1000, 1000>>,
           <<1000, 1000 * MaxScale, 1000 * (MaxScale + 2)>>,
           <<1000 * MaxScale, 1000 * (MaxScale + 1), 1000 * (MaxScale + 2)>>}

Positions == {<<0, 0, 0>>,
              <<1000 * MaxPos, -(1000 * (MaxPos + 2)), 1000 * (MaxPos + 1) + 500>>}

DoSetTransformations(scales, degrees, positions) ==
    /\ ~crashed
    /\ \E sc \in scales, rx \in degrees, ry \in degrees, rz \in degrees, pos \in positions :
         Call("SetTransformations", <<sc, rx, ry, rz, pos>>, <<>>,
              SetTransformations(S, sc, rx, ry, rz, pos))

DoSetupSceneLights ==
    /\ ~crashed
    /\ Call("SetupSceneLights", <<>>, <<>>, SetupSceneLights(S))

DoLoadSceneTextures ==
    /\ ~crashed
    /\ Room(S) >= Good(imageFiles)
    /\ \E clobber \in BOOLEAN :
         /\ clobber => m_loadedTextures + Good(imageFiles) > MAX_TEXTURES
         /\ Call("LoadSceneTextures", imageFiles, <<>>, LoadSceneTextures(S, imageFiles, clobber))

DoPrepareScene ==
    /\ ~crashed
    /\ Room(S) >= Good(imageFiles)
    /\ \E clobber \in BOOLEAN :
         /\ clobber => m_loadedTextures + Good(imageFiles) > MAX_TEXTURES
         /\ Call("PrepareScene", imageFiles, <<>>, PrepareScene(S, imageFiles, clobber))

\* the texture names the model follows: twice what the registry can be seen to hold
DoDestroyGLTextures ==
    /\ ~crashed
    /\ Cardinality(gl.names) + m_loadedTextures <= 2 * (MAX_TEXTURES + MaxOverflow)
    /\ \E clobber \in BOOLEAN :
         /\ clobber => m_loadedTextures > MAX_TEXTURES
         /\ Call("DestroyGLTextures", <<>>, <<>>, DestroyGLTextures(S, clobber))

\* the environment: the missing or unsupported image files are replaced by good ones
RestoreImageFiles ==
    /\ ~crashed
    /\ imageFiles # [i \in 1..4 |-> 3]
    /\ imageFiles' = [i \in 1..4 |-> 3]
    /\ lastCall' = [op |-> "RestoreImageFiles", arg |-> <<>>, ret |-> <<>>]
    /\ UNCHANGED <<m_pShaderManager, m_basicMeshes, m_textureIDs, m_loadedTextures, beyond,
                   m_objectMaterials, gl, uniforms, crashed, loadLog, fragment,
                   fragmentColor, draws, bindPending>>

DoRenderScene ==
    /\ ~crashed
    /\ \E uninit \in UninitMaterials :
         Call("RenderScene", <<>>, <<>>, RenderScene(S, uninit))

\* the lighting stage runs on one fragment of a draw
DoShadeFragment ==
    /\ ~crashed
    /\ \E f \in Fragments :
         /\ fragment' = f
         /\ fragmentColor' = main(uniforms, gl, f)
         /\ lastCall' = [op |-> "main", arg |-> <<>>, ret |-> <<>>]
    /\ UNCHANGED <<m_pShaderManager, m_basicMeshes, m_textureIDs, m_loadedTextures, beyond,
                   m_objectMaterials, gl, uniforms, crashed, loadLog, imageFiles,
                   draws, bindPending>>

----------------------------------------------------------------------------
(* Specifications *)

\* the texture registry and the scene setup
NextRegistry ==
    \/ DoCreateGLTexture
    \/ DoBindGLTextures
    \/ DoFindTextureID
    \/ DoFindTextureSlot
    \/ DoPrepareScene
    \/ RestoreImageFiles

SpecRegistry == Init /\ [][NextRegistry]_vars

\* the texture registry from setup to teardown
NextTeardown ==
    \/ DoCreateGLTexture
    \/ DoPrepareScene
    \/ DoBindGLTextures
    \/ DoFindTextureID
    \/ DoDestroyGLTextures

SpecTeardown == InitGoodFiles /\ [][NextTeardown]_vars

\* the material catalog and the setters
NextMaterial ==
    \/ DoDefineObjectMaterials
    \/ DoFindMaterial(MaterialTags)
    \/ DoSetShaderMaterial(MaterialTags)
    \/ DoSetShaderColor(Colors)
    \/ DoSetTextureUVScale(UVs)

SpecMaterial == InitGoodFiles /\ [][NextMaterial]_vars

\* the setters over a registry of loaded textures
NextTexture ==
    \/ DoCreateGLTexture
    \/ DoSetShaderTexture
    \/ DoSetShaderColor({<<0, 502, 0, 1000>>})
    \/ DoSetTextureUVScale({<<2000, 2000>>})
    \/ DoSetTransformations({<<300000, 1000, 300000>>}, {90}, {<<0, 15000, -150000>>})
    \/ DoLoadSceneTextures

SpecTexture == InitGoodFiles /\ [][NextTexture]_vars

\* the model matrix
NextTransform == DoSetTransformations(Scales, Degrees, Positions)

SpecTransform == InitGoodFiles /\ [][NextTransform]_vars

\* setup and render, with the setters called in between
NextRender ==
    \/ DoPrepareScene
    \/ DoRenderScene
    \/ DoSetShaderMaterial({"sky"})
    \/ RestoreImageFiles

\* the scene's image files are all there, or the last one is missing
InitRender == Init /\ imageFiles \in {[i \in 1..4 |-> 3], <<3, 3, 3, 0>>}

SpecRender == InitRender /\ [][NextRender]_vars

\* the five setters over a material catalog and a texture registry
NextBridge ==
    \/ DoDefineObjectMaterials
    \/ DoCreateGLTexture
    \/ DoSetTransformations({<<300000, 1000, 300000>>}, {90}, {<<0, 15000, -150000>>})
    \/ DoSetShaderColor({<<0, 502, 0, 1000>>})
    \/ DoSetShaderTexture
    \/ DoSetTextureUVScale({<<2000, 2000>>})
    \/ DoSetShaderMaterial({"sky", "absent"})

SpecBridge == InitGoodFiles /\ [][NextBridge]_vars

\* the lighting stage
NextShader == DoShadeFragment

SpecShader == InitShader /\ [][NextShader]_vars

Next ==
    \/ NextRegistry \/ NextTeardown \/ NextMaterial \/ NextTexture \/ NextTransform
    \/ NextRender \/ NextBridge \/ NextShader
    \/ DoSetupSceneLights

Spec == Init /\ [][Next]_vars


----------------------------------------------------------------------------
(* Reference definitions for the properties *)

Min(set) == CHOOSE x \in set : \A y \in set : x <= y

AllGoodFiles == [i \in 1..4 |-> 3]

\* the positions of the defined materials that carry a tag
MaterialsTagged(tag) == {i \in 1..Len(m_objectMaterials) : m_objectMaterials[i].tag = tag}

\* the registration numbers (from 1) of the successful loads that gave a tag
LoadsTagged(tag) == {k \in 1..Len(loadLog) : loadLog[k][1] = tag}

\* the slots (from 0) of the registered entries that carry a tag
SlotsTagged(tag) == {i \in 0..(m_loadedTextures - 1) : Entry(S, i).tag = tag}

FirstSlot(tag) == IF SlotsTagged(tag) = {} THEN -1 ELSE Min(SlotsTagged(tag))

MaterialUniforms == <<uniforms["material.diffuseColor"], uniforms["material.specularColor"],
                      uniforms["material.shininess"]>>

\* every uniform but the two SetShaderTexture writes
OtherUniforms == [n \in (DOMAIN uniforms) \ {"bUseTexture", "objectTexture"} |-> uniforms[n]]

Registry == <<m_textureIDs, m_loadedTextures, beyond>>

----------------------------------------------------------------------------
(* Properties *)

\* C1: FindMaterial reports found exactly when some defined material carries the
\* tag (not found on an empty catalog and on a catalog without the tag), and when
\* found it returns the values of the first material defined with that tag.
C1_FindMaterialFoundIffTagDefined ==
    lastCall.op = "FindMaterial" =>
        LET tag == lastCall.arg[1]
            found == lastCall.ret[1]
            out == lastCall.ret[2]
        IN  /\ found <=> (MaterialsTagged(tag) # {})
            /\ found =>
                 LET m == m_objectMaterials[Min(MaterialsTagged(tag))]
                 IN  out = [diffuseColor |-> m.diffuseColor,
                            specularColor |-> m.specularColor,
                            shininess |-> m.shininess]

\* C2: SetShaderMaterial with a tag that no defined material carries leaves
\* material.diffuseColor, material.specularColor and material.shininess as they
\* were before the call.
C2_AbsentTagLeavesMaterialUniforms ==
    [][(lastCall'.op = "SetShaderMaterial" /\ MaterialsTagged(lastCall'.arg[1]) = {})
          => MaterialUniforms' = MaterialUniforms]_vars

\* C3: CreateGLTexture of an image that decodes but has neither 3 nor 4 channels
\* returns false, creates no GL texture and leaves the registry unchanged.
C3_UnsupportedChannelsFailCleanly ==
    [][(lastCall'.op = "CreateGLTexture" /\ lastCall'.arg[2] \notin {0, 3, 4})
          => /\ lastCall'.ret = FALSE
             /\ gl'.names = gl.names
             /\ Registry' = Registry]_vars

\* C4: CreateGLTexture whose decode fails returns false and leaves the registry
\* unchanged: no entry appended, the count the same, no GL texture created, and
\* FindTextureSlot and FindTextureID give for every tag what they gave before.
C4_DecodeFailureLeavesRegistry ==
    [][(lastCall'.op = "CreateGLTexture" /\ lastCall'.arg[2] = 0)
          => /\ lastCall'.ret = FALSE
             /\ Registry' = Registry
             /\ loadLog' = loadLog
             /\ gl' = gl
             /\ \A tag \in LookupTags \cup FreeTags :
                  /\ FindTextureSlot(S, tag)' = FindTextureSlot(S, tag)
                  /\ FindTextureID(S, tag)' = FindTextureID(S, tag)]_vars

\* a failed decode on a registry that holds entries
C4_Witness ==
    /\ lastCall.op = "CreateGLTexture"
    /\ lastCall.arg[2] = 0
    /\ lastCall.ret = FALSE
    /\ m_loadedTextures >= 4
    /\ FindTextureSlot(S, "stone") = 3

\* C5: after any sequence of loads, FindTextureSlot gives the number (from 0) of
\* the first successful load with the tag and FindTextureID the GL name that load
\* generated; both give -1 when no successful load had the tag.
C5_LookupGivesFirstRegistered ==
    /\ lastCall.op = "FindTextureSlot" =>
         lastCall.ret = IF LoadsTagged(lastCall.arg[1]) = {} THEN -1
                        ELSE Min(LoadsTagged(lastCall.arg[1])) - 1
    /\ lastCall.op = "FindTextureID" =>
         lastCall.ret = IF LoadsTagged(lastCall.arg[1]) = {} THEN -1
                        ELSE loadLog[Min(LoadsTagged(lastCall.arg[1]))][2]

\* C5 while the registry is within its capacity: TLC finds this one to hold.
C5_LookupWithinCapacity == (m_loadedTextures <= MAX_TEXTURES) => C5_LookupGivesFirstRegistered

\* C6: the k-th successful load owns slot k-1, failed loads consume no slot, the
\* count is the number of successful loads, and no later load changes an earlier
\* entry.
C6_SlotIsInsertionOrder ==
    /\ m_loadedTextures = Len(loadLog)
    /\ \A k \in 1..Len(loadLog) :
         Entry(S, k - 1) = [ID |-> loadLog[k][2], tag |-> loadLog[k][1]]

\* C6 while the registry is within its capacity: TLC finds this one to hold.
C6_SlotWithinCapacity == (m_loadedTextures <= MAX_TEXTURES) => C6_SlotIsInsertionOrder

\* C7: in every reachable state at most 16 textures are registered, so that no
\* load writes an entry past the 16th slot.
C7_RegistryWithinCapacity == m_loadedTextures <= MAX_TEXTURES

\* C8: after a setup on a new object that registers the four scene textures, the
\* entries are in slots 0..3 in the order leaves, pineleaves, log, stone, each is
\* bound on the texture unit of its slot, and FindTextureSlot("stone") is 3.
C8_SetupRegistersFourInOrder ==
    (/\ lastCall.op = "PrepareScene"
     /\ lastCall.arg = AllGoodFiles
     /\ ~crashed
     /\ Len(loadLog) = 4)
    => /\ m_loadedTextures = 4
       /\ \A i \in 0..3 :
            /\ m_textureIDs[i].tag = SceneTextureTags[i + 1]
            /\ m_textureIDs[i].ID \in gl.names
            /\ gl.bound[i] = m_textureIDs[i].ID
       /\ \A i, j \in 0..3 : i # j => m_textureIDs[i].ID # m_textureIDs[j].ID
       /\ FindTextureSlot(S, "stone") = 3

C8_Witness ==
    /\ lastCall.op = "PrepareScene"
    /\ lastCall.arg = AllGoodFiles
    /\ ~crashed
    /\ Len(loadLog) = 4
    /\ gl.bound[3] # 0
    /\ m_basicMeshes # {}

\* C9 as stated: SetShaderTexture sets bUseTexture to true and objectTexture to
\* the slot of the tag, -1 when the tag is not registered, and changes no other
\* uniform.
C9_SetTextureAlwaysUploads ==
    [][lastCall'.op = "SetShaderTexture"
          => /\ uniforms'["bUseTexture"] = TRUE
             /\ uniforms'["objectTexture"] = FirstSlot(lastCall'.arg[1])
             /\ OtherUniforms' = OtherUniforms]_vars

\* C9 amended: with a shader manager, SetShaderTexture sets bUseTexture to true
\* and objectTexture to the slot of the tag, -1 when the tag is not registered,
\* and changes no other uniform; without one it changes no uniform at all.
C9_SetTextureUploadsWithShaderManager ==
    [][lastCall'.op = "SetShaderTexture"
          => /\ m_pShaderManager = "valid" =>
                  /\ uniforms'["bUseTexture"] = TRUE
                  /\ uniforms'["objectTexture"] = FirstSlot(lastCall'.arg[1])
                  /\ OtherUniforms' = OtherUniforms
             /\ m_pShaderManager = "NULL" => uniforms' = uniforms]_vars

\* texturing enabled with slot -1 for a tag that none of the entries carries
C9_Witness ==
    /\ lastCall.op = "SetShaderTexture"
    /\ m_pShaderManager = "valid"
    /\ uniforms["bUseTexture"] = TRUE
    /\ lastCall.arg[1] = "absent"
    /\ uniforms["objectTexture"] = -1
    /\ m_loadedTextures >= 4


----------------------------------------------------------------------------
(* The model matrix against the transformation of points, step by step *)

ScalePoint(p, v) == <<Mul(p[1], v[1]), Mul(p[2], v[2]), Mul(p[3], v[3])>>

RotateAboutX(p, d) ==
    <<p[1], Mul(p[2], Cos(d)) - Mul(p[3], Sin(d)), Mul(p[2], Sin(d)) + Mul(p[3], Cos(d))>>

RotateAboutY(p, d) ==
    <<Mul(p[1], Cos(d)) + Mul(p[3], Sin(d)), p[2], Mul(p[3], Cos(d)) - Mul(p[1], Sin(d))>>

RotateAboutZ(p, d) ==
    <<Mul(p[1], Cos(d)) - Mul(p[2], Sin(d)), Mul(p[1], Sin(d)) + Mul(p[2], Cos(d)), p[3]>>

TranslatePoint(p, v) == <<p[1] + v[1], p[2] + v[2], p[3] + v[3]>>

\* scaled, then rotated about X, then about Y, then about Z, then translated
ReferenceTransform(p, sc, rx, ry, rz, pos) ==
    TranslatePoint(
        RotateAboutZ(RotateAboutY(RotateAboutX(ScalePoint(p, sc), rx), ry), rz), pos)

\* the matrix M applied to the point p, as the vertex stage does: M * vec4(p, 1)
ApplyMatrix(M, p) ==
    << Mul(M[1][1], p[1]) + Mul(M[1][2], p[2]) + Mul(M[1][3], p[3]) + M[1][4],
       Mul(M[2][1], p[1]) + Mul(M[2][2], p[2]) + Mul(M[2][3], p[3]) + M[2][4],
       Mul(M[3][1], p[1]) + Mul(M[3][2], p[2]) + Mul(M[3][3], p[3]) + M[3][4] >>

\* the origin, the three unit points and one point off the axes: an affine map is
\* fixed by its values on the first four
ProbePoints == {<<0, 0, 0>>, <<1000, 0, 0>>, <<0, 1000, 0>>, <<0, 0, 1000>>,
                <<1000, 2000, 3500>>}

\* C10: the model matrix that SetTransformations uploads is T * Rz * Ry * Rx * S:
\* it takes every point to where scaling it, then rotating it about X, then about
\* Y, then about Z, then translating it takes it.
C10_ModelMatrixIsTRzRyRxS ==
    (lastCall.op = "SetTransformations" /\ m_pShaderManager = "valid") =>
        LET a == lastCall.arg
        IN  /\ uniforms["model"][4] = <<0, 0, 0, 1000>>
            /\ \A p \in ProbePoints :
                 ApplyMatrix(uniforms["model"], p)
                     = ReferenceTransform(p, a[1], a[2], a[3], a[4], a[5])

\* a transformation with three different quarter turns, a scale that differs on
\* every axis and a translation has been uploaded
C10_Witness ==
    /\ lastCall.op = "SetTransformations"
    /\ m_pShaderManager = "valid"
    /\ lastCall.arg[1] # <<1000, 1000, 1000>>
    /\ lastCall.arg[2] = 90
    /\ lastCall.arg[3] = 180
    /\ lastCall.arg[4] = 270
    /\ lastCall.arg[5] # <<0, 0, 0>>
    /\ uniforms["model"] # ZeroMatrix

\* C11: with rotation (0,0,0), whatever the scale and the translation, the model
\* matrix that SetTransformations uploads takes the origin to exactly the
\* translation (tx,ty,tz).
C11_OriginGoesToTranslation ==
    (/\ lastCall.op = "SetTransformations"
     /\ m_pShaderManager = "valid"
     /\ lastCall.arg[2] = 0 /\ lastCall.arg[3] = 0 /\ lastCall.arg[4] = 0)
    => ApplyMatrix(uniforms["model"], <<0, 0, 0>>) = lastCall.arg[5]

\* an unrotated transformation with a scale other than 1 and a translation
C11_Witness ==
    /\ lastCall.op = "SetTransformations"
    /\ m_pShaderManager = "valid"
    /\ lastCall.arg[2] = 0 /\ lastCall.arg[3] = 0 /\ lastCall.arg[4] = 0
    /\ lastCall.arg[1] = <<1000 * MaxScale, 1000 * (MaxScale + 1), 1000 * (MaxScale + 2)>>
    /\ lastCall.arg[5] # <<0, 0, 0>>
    /\ ApplyMatrix(uniforms["model"], <<0, 0, 0>>) = lastCall.arg[5]

\* a half turn about Y alone, with no translation, has been uploaded
HalfTurnAboutY ==
    /\ lastCall.op = "SetTransformations"
    /\ m_pShaderManager = "valid"
    /\ lastCall.arg[2] = 0 /\ lastCall.arg[3] = 180 /\ lastCall.arg[4] = 0
    /\ lastCall.arg[5] = <<0, 0, 0>>

\* C12 as stated: with a rotation of 180 degrees about Y alone and no
\* translation, for any scale, the model matrix takes (1,0,0) to (-1,0,0).
C12_HalfTurnAboutYAnyScale ==
    HalfTurnAboutY => ApplyMatrix(uniforms["model"], <<1000, 0, 0>>) = <<-1000, 0, 0>>

\* C12 amended: with a rotation of 180 degrees about Y alone and no
\* translation, the model matrix takes (1,0,0) to (-sx,0,0), which is (-1,0,0)
\* when the X scale is 1, for any Y and Z scale.
C12_HalfTurnAboutYScalesX ==
    HalfTurnAboutY =>
        /\ ApplyMatrix(uniforms["model"], <<1000, 0, 0>>) = <<-lastCall.arg[1][1], 0, 0>>
        /\ lastCall.arg[1][1] = 1000 =>
              ApplyMatrix(uniforms["model"], <<1000, 0, 0>>) = <<-1000, 0, 0>>

\* a half turn about Y with X scale 1 and other Y and Z scales
C12_Witness ==
    /\ HalfTurnAboutY
    /\ lastCall.arg[1][1] = 1000
    /\ lastCall.arg[1][2] # 1000
    /\ lastCall.arg[1][3] # 1000
    /\ ApplyMatrix(uniforms["model"], <<1000, 0, 0>>) = <<-1000, 0, 0>>

----------------------------------------------------------------------------
(* The lighting stage *)

\* C13: with bUseLighting false, the fragment's colour is the object colour when
\* texturing is off and the texture sample itself, multiplied by nothing, when it
\* is on, whatever the lights, the material and UVscale: the same fragment shaded
\* under any other lights and material gets the same colour.
C13_UnlitIgnoresLightsAndMaterial ==
    (lastCall.op = "main" /\ uniforms["bUseLighting"] = FALSE) =>
        /\ uniforms["bUseTexture"] = FALSE => fragmentColor = uniforms["objectColor"]
        /\ uniforms["bUseTexture"] = TRUE =>
              fragmentColor =
                  IF gl.bound[uniforms["objectTexture"]] = 0 THEN <<0, 0, 0, 1000>>
                  ELSE TexImage(gl.bound[uniforms["objectTexture"]],
                                <<Mul(fragment.fragmentTextureCoordinate[1],
                                      uniforms["UVscale"][1]),
                                  Mul(fragment.fragmentTextureCoordinate[2],
                                      uniforms["UVscale"][2])>>)
        /\ \A rig \in LightRigs, mat \in ShaderMaterials :
              main(Override(uniforms, rig @@ mat), gl, fragment) = fragmentColor

\* an unlit textured fragment shaded while every light is active
C13_Witness ==
    /\ lastCall.op = "main"
    /\ uniforms["bUseLighting"] = FALSE
    /\ uniforms["bUseTexture"] = TRUE
    /\ uniforms["UVscale"] = <<2000, 2000>>
    /\ \A i \in 1..7 : uniforms[LightFlags[i]] = TRUE
    /\ fragmentColor[1] # 0
    /\ \E rig \in LightRigs :
          main(Override(uniforms, rig @@ [n \in {"bUseLighting"} |-> TRUE]), gl, fragment)
              # fragmentColor

\* the point lights that are active
ActivePointLights == {i \in 0..4 : uniforms[PointLightNames[i + 1] \o ".bActive"] = TRUE}

\* C14: after a setup, lighting is enabled, the directional light is active,
\* exactly one of the five point lights is active and the spot light is not.
C14_LightsAfterSetup ==
    (lastCall.op = "PrepareScene" /\ ~crashed) =>
        /\ uniforms["bUseLighting"] = TRUE
        /\ uniforms["directionalLight.bActive"] = TRUE
        /\ Cardinality(ActivePointLights) = 1
        /\ uniforms["spotLight.bActive"] = FALSE

\* a setup has run to its end and the second point light is the active one
C14_Witness ==
    /\ lastCall.op = "PrepareScene"
    /\ ~crashed
    /\ m_basicMeshes # {}
    /\ ActivePointLights = {1}
    /\ uniforms["pointLights[1].position"] = <<30000, 20000, -80000>>

----------------------------------------------------------------------------
(* The three terms of one light, written out from the fragment and the uniforms *)

ShadedSurface ==
    IF uniforms["bUseTexture"] = TRUE
    THEN IF gl.bound[uniforms["objectTexture"]] = 0 THEN <<0, 0, 0>>
         ELSE Vec3(TexImage(gl.bound[uniforms["objectTexture"]],
                            <<Mul(fragment.fragmentTextureCoordinate[1], uniforms["UVscale"][1]),
                              Mul(fragment.fragmentTextureCoordinate[2], uniforms["UVscale"][2])>>))
    ELSE Vec3(uniforms["objectColor"])

ShadedNormal == Normalize(fragment.fragmentVertexNormal, fragment.unspecified)

ShadedViewDir ==
    Normalize(VSub(uniforms["viewPosition"], fragment.fragmentPosition), fragment.unspecified)

\* the direction to the light: -direction for the directional light,
\* position - fragmentPosition for the others, normalized
DirectionTo(light) ==
    IF light = "directionalLight"
    THEN Normalize(VNeg(uniforms["directionalLight.direction"]), fragment.unspecified)
    ELSE Normalize(VSub(uniforms[light \o ".position"], fragment.fragmentPosition),
                   fragment.unspecified)

\* diff = max(dot(normal, lightDir), 0)
DiffOf(light) == Max(VDot(ShadedNormal, DirectionTo(light)), 0)

\* spec = pow(max(dot(viewDir, reflectDir), 0), shininess)
SpecOf(light) ==
    LET L == DirectionTo(light)
        reflectDir == VSub(VNeg(L), VScale(ShadedNormal, 2 * VDot(ShadedNormal, VNeg(L))))
    IN  Pow(Max(VDot(ShadedViewDir, reflectDir), 0), uniforms["material.shininess"],
            fragment.unspecified)

AmbientOf(light) == VMul(uniforms[light \o ".ambient"], ShadedSurface)

DiffuseOf(light) ==
    VMul(VMul(VScale(uniforms[light \o ".diffuse"], DiffOf(light)),
              uniforms["material.diffuseColor"]), ShadedSurface)

\* spec * lightSpecular * materialSpecular, with no surface factor
SpecularOf(light) ==
    VMul(VScale(uniforms[light \o ".specular"], SpecOf(light)),
         uniforms["material.specularColor"])

\* the lights that are active
ActiveLights == {i \in 1..7 : uniforms[LightFlags[i]] = TRUE}

Lit == lastCall.op = "main" /\ uniforms["bUseLighting"] = TRUE

\* C15: in the lighting stage the ambient and diffuse terms of every kind of
\* light carry the texture or object colour; the specular term of a point light
\* is spec * lightSpecular * materialSpecular with no such factor, and the
\* specular term of the directional light and of the spot light is multiplied by
\* the texture or object colour as well.
C15_PointSpecularOmitsSurface ==
    /\ (Lit /\ ActiveLights = {1}) =>
          Vec3(fragmentColor) =
              VAdd(VAdd(AmbientOf("directionalLight"), DiffuseOf("directionalLight")),
                   VMul(SpecularOf("directionalLight"), ShadedSurface))
    /\ \A i \in 0..4 :
          (Lit /\ ActiveLights = {i + 2}) =>
              Vec3(fragmentColor) =
                  VAdd(VAdd(AmbientOf(PointLightNames[i + 1]), DiffuseOf(PointLightNames[i + 1])),
                       SpecularOf(PointLightNames[i + 1]))
    /\ (Lit /\ ActiveLights = {7}) =>
          LET k == Mul(SpotAttenuation(uniforms, fragment), SpotIntensity(uniforms, fragment))
          IN  Vec3(fragmentColor) =
                  VAdd(VAdd(VScale(AmbientOf("spotLight"), k),
                            VScale(DiffuseOf("spotLight"), k)),
                       VScale(VMul(SpecularOf("spotLight"), ShadedSurface), k))

\* a textured fragment lit by a point light alone, with a specular highlight
\* that the texture's colour would have changed
C15_Witness ==
    /\ Lit
    /\ ActiveLights = {2}
    /\ uniforms["bUseTexture"] = TRUE
    /\ SpecOf("pointLights[0]") > 0
    /\ VMul(SpecularOf("pointLights[0]"), ShadedSurface) # SpecularOf("pointLights[0]")
    /\ Vec3(fragmentColor) # <<0, 0, 0>>

\* cosTheta: the cosine of the angle between the spot light's axis and the
\* direction from the light to the fragment
CosTheta ==
    VDot(DirectionTo("spotLight"),
         Normalize(VNeg(uniforms["spotLight.direction"]), fragment.unspecified))

\* 1 / (constant + linear * dist + quadratic * dist^2)
Attenuation ==
    LET dist == VLength(VSub(uniforms["spotLight.position"], fragment.fragmentPosition))
        denominator == uniforms["spotLight.constant"] + Mul(uniforms["spotLight.linear"], dist)
                           + Mul(uniforms["spotLight.quadratic"], Mul(dist, dist))
    IN  IF denominator = 0 THEN fragment.unspecified ELSE 1000000 \div denominator

\* the output of a fragment lit by the spot light alone when the cone's factor
\* is factor: the three terms, each multiplied by attenuation * factor
SpotOutput(factor) ==
    LET k == Mul(Attenuation, factor)
    IN  VAdd(VAdd(VScale(AmbientOf("spotLight"), k), VScale(DiffuseOf("spotLight"), k)),
             VScale(VMul(SpecularOf("spotLight"), ShadedSurface), k))

\* the three cases of the cone's factor
ConeFactorCases ==
    LET cutOff == uniforms["spotLight.cutOff"]
        outerCutOff == uniforms["spotLight.outerCutOff"]
    IN  /\ CosTheta <= outerCutOff => Vec3(fragmentColor) = SpotOutput(0)
        /\ CosTheta >= cutOff => Vec3(fragmentColor) = SpotOutput(1000)
        /\ (outerCutOff < CosTheta /\ CosTheta < cutOff) =>
              Vec3(fragmentColor) =
                  SpotOutput(((CosTheta - outerCutOff) * 1000) \div (cutOff - outerCutOff))

\* C16 as stated: for every spot light and fragment the cone's factor is 0 when
\* cosTheta is at or outside the outer cutoff, 1 when it is at or inside the
\* inner cutoff and (cosTheta - outerCutOff) / (cutOff - outerCutOff) in between,
\* and it multiplies, with the attenuation, the ambient, diffuse and specular
\* terms alike.
C16_ConeFactorForEveryCone == (Lit /\ ActiveLights = {7}) => ConeFactorCases

\* C16 amended: the same for every spot light whose inner cutoff cosine is
\* greater than its outer cutoff cosine.
C16_ConeFactorForProperCone ==
    (Lit /\ ActiveLights = {7}
         /\ uniforms["spotLight.cutOff"] > uniforms["spotLight.outerCutOff"])
    => ConeFactorCases

\* a fragment between the two cones of a proper spot light, lit at half strength
C16_Witness ==
    /\ Lit
    /\ ActiveLights = {7}
    /\ uniforms["spotLight.cutOff"] = 900
    /\ uniforms["spotLight.outerCutOff"] = 700
    /\ CosTheta = 800
    /\ Attenuation > 0
    /\ Vec3(fragmentColor) = SpotOutput(500)
    /\ Vec3(fragmentColor) # SpotOutput(1000)
    /\ Vec3(fragmentColor) # SpotOutput(0)

----------------------------------------------------------------------------
(* Teardown *)

\* the GL names of the registered textures
RegisteredNames == {Entry(S, i).ID : i \in 0..(m_loadedTextures - 1)}

\* C17: after DestroyGLTextures on a registry of n entries none of the n
\* textures that the loads created is still allocated, and no new texture has
\* been allocated.
C17_TeardownReleasesTextures ==
    [][lastCall'.op = "DestroyGLTextures"
          => /\ RegisteredNames \cap gl'.names = {}
             /\ gl'.names \subseteq gl.names]_vars

----------------------------------------------------------------------------
(* Setup after a failed setup *)

\* the setups so far: each one appends three materials
SetupsRun == Len(m_objectMaterials) \div 3

\* fewer loads have succeeded than four for every setup: some setup's load failed
SomeSetupLoadFailed == Len(loadLog) < 4 * SetupsRun

SceneMaterialTags == {"wood", "greenery", "sky"}

\* every texture tag of the scene resolves to a slot of the registry, 0..15, on
\* whose unit the registered texture is bound, and every material tag of the
\* scene resolves to the values it has after a setup on a new object
SceneResolves ==
    /\ \A i \in 1..4 :
          LET slot == FindTextureSlot(S, SceneTextureTags[i])
          IN  /\ slot \in 0..(MAX_TEXTURES - 1)
              /\ m_textureIDs[slot].tag = SceneTextureTags[i]
              /\ m_textureIDs[slot].ID \in gl.names
              /\ gl.bound[slot] = m_textureIDs[slot].ID
    /\ \A tag \in SceneMaterialTags, m \in UninitMaterials :
          /\ FindMaterial(S, tag, m).ret = TRUE
          /\ FindMaterial(S, tag, m).material = FindMaterial(SetupState, tag, m).material

\* C18: when a load of some setup has failed, a setup whose four loads all
\* succeed leaves every texture tag of the scene resolving to a bound slot in
\* 0..15 and every material tag resolving to the values of a failure-free setup.
C18_SetupRecoversAfterFailure ==
    (/\ lastCall.op = "PrepareScene"
     /\ lastCall.arg = AllGoodFiles
     /\ ~crashed
     /\ SomeSetupLoadFailed)
    => SceneResolves

\* C18 while the registry is within its capacity: TLC finds this one to hold.
C18_RecoversWithinCapacity ==
    (m_loadedTextures <= MAX_TEXTURES) => C18_SetupRecoversAfterFailure

\* a setup that follows one whose load of the stone texture failed
C18_RecoveredOnce ==
    /\ lastCall.op = "PrepareScene"
    /\ lastCall.arg = AllGoodFiles
    /\ ~crashed
    /\ SetupsRun = 2
    /\ Len(loadLog) = 7
    /\ FindTextureSlot(S, "stone") = 6
    /\ SceneResolves

----------------------------------------------------------------------------
(* Rendering *)

\* a RenderScene has returned on an object whose setup ran to its end
Rendered == lastCall.op = "RenderScene" /\ ~crashed /\ m_basicMeshes # {}

\* the uniforms the lighting stage reads for a draw
UniformsRead(d) ==
    {"model", "bUseTexture", "material.diffuseColor", "material.specularColor",
     "material.shininess"}
        \cup (IF d.bUseTexture = TRUE THEN {"objectTexture"} ELSE {"objectColor"})

\* uniform values that no draw of the scene uses
LeftOver ==
    [n \in {"model", "bUseTexture", "objectColor", "objectTexture", "material.diffuseColor",
            "material.specularColor", "material.shininess"} |->
        CASE n = "model" -> ZeroMatrix
          [] n = "bUseTexture" -> TRUE
          [] n = "objectColor" -> <<1, 2, 3, 4>>
          [] n = "objectTexture" -> 9
          [] n = "material.shininess" -> 7
          [] OTHER -> <<7, 7, 7>>]

\* C19: after a setup every RenderScene issues the same sequence of draws with
\* the same values of the uniforms the lighting stage reads at each draw,
\* whatever the uniforms were before it, and each of these values has been set
\* for that draw: none is left from the draw before or from an earlier render.
C19_RenderSetsEveryDraw ==
    Rendered =>
        /\ \A k \in 1..Len(draws) : UniformsRead(draws[k]) \subseteq draws[k].fresh
        /\ \A uninit \in UninitMaterials :
              /\ RenderScene(S, uninit).draws = draws
              /\ RenderScene([S EXCEPT !.uniforms = Override(uniforms, LeftOver)],
                             uninit).draws = draws

\* a render of the whole scene on an object that has been set up twice
C19_Witness ==
    /\ Rendered
    /\ SetupsRun = 2
    /\ Len(draws) = 46
    /\ draws[1].kind = "plane" /\ draws[1].bUseTexture = FALSE
    /\ draws[3].bUseTexture = TRUE /\ draws[3].objectTexture = 2
    /\ draws[46].kind = "sphere" /\ draws[46].material[3] = 100

\* C20: when a setup has run to its end before a render, every draw of the
\* render is of a mesh kind that has been loaded before it, and BindGLTextures
\* has run since the last CreateGLTexture when a draw uses a texture.
C20_PreloadAndBindBeforeDraw ==
    Rendered =>
        \A k \in 1..Len(draws) :
            /\ draws[k].loaded
            /\ draws[k].bUseTexture = TRUE => ~draws[k].bindPending

\* a render of the four mesh kinds, with textured draws, after a setup
C20_Witness ==
    /\ Rendered
    /\ SetupsRun = 1
    /\ {draws[k].kind : k \in 1..Len(draws)} = {"plane", "cylinder", "sphere", "pyramid3"}
    /\ \E k \in 1..Len(draws) : draws[k].bUseTexture = TRUE /\ draws[k].objectTexture = 3

----------------------------------------------------------------------------
(* Setters without a shader manager *)

BridgeSetters ==
    {"SetTransformations", "SetShaderColor", "SetShaderTexture", "SetTextureUVScale",
     "SetShaderMaterial"}

\* the call did nothing: the process runs on and the object, the uniforms and
\* the OpenGL context are as they were
NoOp ==
    /\ ~crashed'
    /\ UNCHANGED <<m_pShaderManager, m_basicMeshes, m_textureIDs, m_loadedTextures, beyond,
                   m_objectMaterials, gl, uniforms, loadLog, draws, bindPending>>

\* C21: on an object constructed with a null shader manager each of the five
\* setters returns without dereferencing the shader manager and changes
\* nothing, whatever the material catalog and the texture registry hold.
C21_SettersNoOpWithoutShaderManager ==
    [][(m_pShaderManager = "NULL" /\ lastCall'.op \in BridgeSetters) => NoOp]_vars

\* the four setters whose body is under the null test are no-ops, and so is
\* SetShaderMaterial while the material catalog is empty
C21_GuardedSettersNoOp ==
    [][(/\ m_pShaderManager = "NULL"
        /\ lastCall'.op \in BridgeSetters
        /\ lastCall'.op = "SetShaderMaterial" => m_objectMaterials = <<>>) => NoOp]_vars

\* SetShaderTexture has returned on an object without a shader manager that
\* holds materials and a texture
C21_GuardedSetterReached ==
    /\ m_pShaderManager = "NULL"
    /\ lastCall.op = "SetShaderTexture"
    /\ m_objectMaterials # <<>>
    /\ m_loadedTextures > 0
    /\ ~crashed

============================================================================
